---- MODULE Spec2Model ----
(***************************************************************************)
(* Model of the chat session hook useChat (src/src/hooks/useChat.ts).      *)
(*                                                                         *)
(* React state is modelled in two layers:                                  *)
(*   session, isLoading : the hook's state as the queued updates leave it  *)
(*                        (setSession / setIsLoading applied in order);    *)
(*   rendered           : the values captured by the latest render, which  *)
(*                        are the values the sendMessage callback closes   *)
(*                        over (useCallback deps, line 105).               *)
(* A render is a step of its own: updates made by a handler are visible to *)
(* the callbacks only after the component has rendered again.              *)
(*                                                                         *)
(* Texts are sequences of characters (one-character strings); the fixed    *)
(* texts of the source are kept as one-chunk sequences.                    *)
(***************************************************************************)
EXTENDS Integers, Sequences, FiniteSets, TLC

\* ---------------------------------------------------------------- bounds
MaxSends == 2
MaxClock == 1

\* ------------------------------------------------------------ pure helpers
Whitespace == {" ", "\t", "\n"}

RECURSIVE TrimStart(_)
TrimStart(s) ==
  IF s # <<>> /\ Head(s) \in Whitespace THEN TrimStart(Tail(s)) ELSE s

RECURSIVE TrimEnd(_)
TrimEnd(s) ==
  IF s # <<>> /\ s[Len(s)] \in Whitespace
  THEN TrimEnd(SubSeq(s, 1, Len(s) - 1))
  ELSE s

\* mutant of trim: the input is used untrimmed
trimNone(s) == s

\* String.prototype.trim
trim(s) == TrimEnd(TrimStart(s))

\* Date.prototype.toISOString: a Date (ms since epoch) as an ISO-8601 text
toISOString(ms) == <<"ISO-8601", ms>>

\* `user_${Date.now()}_${Math.random().toString(36).substr(2, 9)}`
newSessionId(ms, r) == <<"user", ms, r>>

\* `msg_${Date.now()}`, `msg_${Date.now()}_ai`, `msg_${Date.now()}_error`
msgId(ms, suffix) == <<"msg", ms, suffix>>

\* outcomes of Math.random().toString(36).substr(2, 9): two suffixes are
\* enough to tell a repeated draw from a fresh one
RandSuffix == {"k3x9", "p07q"}

\* the texts a caller passes to sendMessage
Inputs == { <<>>, <<" ", "\n">>, <<"h", "i">>, <<" ", "h", "i", " ">> }

\* line 88
FallbackText ==
  <<"I apologize, but I'm having trouble connecting right now. Please try again in a moment or contact us directly at (469) 949-3998.">>

\* line 73
DefaultText ==
  <<"I apologize, but I encountered an issue processing your request.">>

\* the values response.json() can resolve to: null, or an object with any
\* subset of the fields response and message (each empty or not)
FieldTexts ==
  [response |-> { <<>>, <<"H", "e", "l", "l", "o">> },
   message |-> { <<>>, <<"H", "i">> }]

JsonObjects ==
  UNION { { o \in [F -> FieldTexts.response \cup FieldTexts.message] :
              \A f \in F : o[f] \in FieldTexts[f] } :
          F \in SUBSET {"response", "message"} }

JsonBodies ==
  { [kind |-> "null", fields |-> <<>>] }
    \cup { [kind |-> "object", fields |-> o] : o \in JsonObjects }

\* a || chain operand: undefined and "" are falsy
Truthy(obj, f) == f \in DOMAIN obj /\ obj[f] # <<>>

\* mutant of replyContent: the message field is tried first
replyContentMessageFirst(data) ==
  IF Truthy(data.fields, "message") THEN data.fields["message"]
  ELSE IF Truthy(data.fields, "response") THEN data.fields["response"]
  ELSE DefaultText

\* mutant of replyContent: the message field is not consulted
replyContentResponseOnly(data) ==
  IF Truthy(data.fields, "response") THEN data.fields["response"]
  ELSE DefaultText

\* data.response || data.message || '<default>'  (line 73)
replyContent(data) ==
  IF Truthy(data.fields, "response") THEN data.fields["response"]
  ELSE IF Truthy(data.fields, "message") THEN data.fields["message"]
  ELSE DefaultText

\* session.messages.map(msg => ({role, content, timestamp}))  (lines 56-60)
historyOf(msgs) ==
  [i \in 1 .. Len(msgs) |->
     [role |-> msgs[i].role,
      content |-> msgs[i].content,
      timestamp |-> toISOString(msgs[i].timestamp)]]

\* ------------------------------------------------------------ formatter
\* formatMessage of ChatWidget (src/unnamed/part_001, lines 52-114). A text
\* is a sequence of characters; positions are 1-based, so the source's
\* index i is position i + 1.

\* the longest run of characters outside `stop` that starts at position p:
\* the position of its last character (p - 1 if the run is empty); this is
\* what the greedy classes [^\s]+, [^\]]+ and [^)]+ consume
RECURSIVE RunEnd(_, _, _)
RunEnd(line, p, stop) ==
  IF p <= Len(line) /\ line[p] \notin stop
  THEN RunEnd(line, p + 1, stop)
  ELSE p - 1

\* the literal `pat` stands at position p
StartsWith(line, p, pat) ==
  /\ p + Len(pat) - 1 <= Len(line)
  /\ SubSeq(line, p, p + Len(pat) - 1) = pat

NoMatch == [found |-> FALSE]

\* first alternative at position p: https?:\/\/[^\s]+
matchUrl(line, p) ==
  LET n == IF StartsWith(line, p, <<"h", "t", "t", "p", "s", ":", "/", "/">>) THEN 8
           ELSE IF StartsWith(line, p, <<"h", "t", "t", "p", ":", "/", "/">>) THEN 7
           ELSE 0
      e == RunEnd(line, p + n, Whitespace)
  IN IF n > 0 /\ e >= p + n
     THEN [found |-> TRUE, index |-> p, end |-> e, group |-> 1,
           url |-> SubSeq(line, p, e)]
     ELSE NoMatch

\* second alternative at position p: \[([^\]]+)\]\(([^)]+)\)
matchMarkdown(line, p) ==
  LET le == RunEnd(line, p + 1, {"]"})
      ue == RunEnd(line, le + 3, {")"})
  IN IF /\ StartsWith(line, p, <<"[">>)
        /\ le >= p + 1
        /\ StartsWith(line, le + 1, <<"]", "(">>)
        /\ ue >= le + 3
        /\ StartsWith(line, ue + 1, <<")">>)
     THEN [found |-> TRUE, index |-> p, end |-> ue + 1, group |-> 2,
           linkText |-> SubSeq(line, p + 1, le),
           linkUrl |-> SubSeq(line, le + 3, ue)]
     ELSE NoMatch

\* urlRegex.exec(line) with the regex's lastIndex at position `from`: the
\* leftmost position where an alternative matches, the first alternative
\* tried first
RECURSIVE exec(_, _)
exec(line, from) ==
  IF from > Len(line) THEN NoMatch
  ELSE IF matchUrl(line, from).found THEN matchUrl(line, from)
  ELSE IF matchMarkdown(line, from).found THEN matchMarkdown(line, from)
  ELSE exec(line, from + 1)

\* a string pushed to parts
textPart(text) == [kind |-> "text", text |-> text]

\* the <a> element pushed to parts (lines 70-78 and 85-93)
anchorPart(href, children) ==
  [kind |-> "a", href |-> href, children |-> children,
   target |-> "_blank", rel |-> "noopener noreferrer"]

\* mutant of markdownLink: the bracketed text is taken as the target
markdownLinkSwapped(m) == anchorPart(m.linkText, m.linkUrl)

\* lines 80-94: linkText = match[3], linkUrl = match[4]
markdownLink(m) == anchorPart(m.linkUrl, m.linkText)

\* lines 66-79: url = match[1] is target and label
urlLink(m) == anchorPart(m.url, m.url)

\* mutant of textBefore: the slice starts one character late
textBeforeShort(line, lastIndex, index) == SubSeq(line, lastIndex + 1, index - 1)

\* line.slice(lastIndex, match.index), lastIndex and index as positions
textBefore(line, lastIndex, index) == SubSeq(line, lastIndex, index - 1)

\* the while loop of processLine (lines 60-98) from position lastIndex on,
\* then the remaining text (lines 100-103)
RECURSIVE processFrom(_, _, _)
processFrom(line, lastIndex, parts) ==
  LET m == exec(line, lastIndex)
  IN IF m.found
     THEN LET before == IF m.index > lastIndex
                        THEN Append(parts, textPart(textBefore(line, lastIndex, m.index)))
                        ELSE parts
              link == IF m.group = 1 THEN urlLink(m) ELSE markdownLink(m)
          IN processFrom(line, m.end + 1, Append(before, link))
     ELSE IF lastIndex <= Len(line)
          THEN Append(parts, textPart(SubSeq(line, lastIndex, Len(line))))
          ELSE parts

\* processLine (lines 55-106)
processLine(line) ==
  LET parts == processFrom(line, 1, <<>>)
  IN IF Len(parts) > 0 THEN parts ELSE <<textPart(line)>>

\* content.split('\n'): the lines, `cur` being the line read so far
RECURSIVE splitFrom(_, _)
splitFrom(rest, cur) ==
  IF rest = <<>> THEN <<cur>>
  ELSE IF Head(rest) = "\n" THEN <<cur>> \o splitFrom(Tail(rest), <<>>)
  ELSE splitFrom(Tail(rest), Append(cur, Head(rest)))

split(content) == splitFrom(content, <<>>)

\* formatMessage (lines 108-113): per line its parts and whether a <br />
\* follows
formatMessage(content) ==
  LET lines == split(content)
  IN [index \in 1 .. Len(lines) |->
        [parts |-> processLine(lines[index]),
         br |-> index < Len(lines)]]

\* messages.map(message => formatMessage(message.content)) (lines 175-197)
viewOf(messages) ==
  [k \in 1 .. Len(messages) |-> formatMessage(messages[k].content)]

\* the pieces the formatted texts are built from
Pieces ==
  { <<"S", "e", "e", " ">>,
    <<"h", "t", "t", "p", "s", ":", "/", "/", "a", ".", "c", "o", "m">>,
    <<"\n">>,
    <<"[", "h", "e", "r", "e", "]", "(", "h", "t", "t", "p", "s", ":", "/", "/", "b", ".", "c", "o", "m", ")">>,
    <<"h", "t", "t", "p", ":", "/", "/">>,
    <<"[", "a", "]", "(", "b">>,
    <<")">>,
    <<"]">> }

\* the number of pieces in a text
MaxPieces == 3

RECURSIVE TextsOf(_)
TextsOf(n) ==
  IF n = 0 THEN { <<>> }
  ELSE TextsOf(n - 1) \cup { t \o q : t \in TextsOf(n - 1), q \in Pieces }

\* "See https://a.com\n[here](https://b.com)"
RoundTripInput ==
  <<"S", "e", "e", " ", "h", "t", "t", "p", "s", ":", "/", "/", "a", ".", "c", "o", "m", "\n", "[", "h", "e", "r", "e", "]", "(", "h", "t", "t", "p", "s", ":", "/", "/", "b", ".", "c", "o", "m", ")">>

\* the texts given to the formatter
FormatInputs == TextsOf(MaxPieces) \cup { RoundTripInput }

\* --------------------------------------------------------------- state
VARIABLES
  session,    \* [sessionId, messages]  (useState, line 17)
  isLoading,  \* useState(false), line 21
  rendered,   \* the last render: [sessionId, messages, isLoading] as captured
              \* by the callbacks, and the view the widget shows
  calls,      \* accepted sendMessage invocations: [pc, userMessage, request]
  requests,   \* number of fetch calls issued
  toasts,     \* number of toast notifications raised
  now,        \* the millisecond clock (Date.now())
  last        \* the operation that produced this state: [op, accepted, how]

vars == <<session, isLoading, rendered, calls, requests, toasts, now, last>>

\* mutant of appendMessage: the update is built from the rendered session
\* instead of the previous state
appendToRendered(prev, m) ==
  [sessionId |-> rendered.sessionId, messages |-> Append(rendered.messages, m)]

\* mutant of appendMessage: the new message is put in front of the list
prependMessage(prev, m) ==
  [prev EXCEPT !.messages = <<m>> \o prev.messages]

\* mutant of appendMessage: the update also writes a session identifier
appendWithNewId(prev, m) ==
  [sessionId |-> newSessionId(now, "p07q"),
   messages |-> Append(prev.messages, m)]

\* setSession(prev => ({...prev, messages: [...prev.messages, m]}))
appendMessage(prev, m) ==
  [prev EXCEPT !.messages = Append(prev.messages, m)]

Event(op, accepted, how) ==
  [op |-> op, accepted |-> accepted, how |-> how]

Init ==
  /\ now = 0
  /\ session = [sessionId |-> newSessionId(0, "k3x9"), messages |-> <<>>]
  /\ isLoading = FALSE
  /\ rendered = [sessionId |-> session.sessionId,
                 messages |-> <<>>,
                 isLoading |-> FALSE,
                 view |-> <<>>]
  /\ calls = <<>>
  /\ requests = 0
  /\ toasts = 0
  /\ last = Event("mount", FALSE, "")

\* the component renders again: the callbacks are re-created over the
\* current state
Render ==
  /\ rendered' = [sessionId |-> session.sessionId,
                  messages |-> session.messages,
                  isLoading |-> isLoading,
                  view |-> viewOf(session.messages)]
  /\ rendered' # rendered
  /\ last' = Event("render", FALSE, "")
  /\ UNCHANGED <<session, isLoading, calls, requests, toasts, now>>

\* the millisecond clock advances
Tick ==
  /\ now < MaxClock
  /\ now' = now + 1
  /\ last' = Event("tick", FALSE, "")
  /\ UNCHANGED <<session, isLoading, rendered, calls, requests, toasts>>

\* if (!message.trim() || isLoading) return;   (line 25)
earlyReturn(message) == trim(message) = <<>> \/ rendered.isLoading

\* mutant of userMessageOf: the content is the input as typed
userMessageRaw(ms, message) ==
  [id |-> msgId(ms, ""),
   role |-> "user",
   content |-> message,
   timestamp |-> ms]

\* lines 27-32
userMessageOf(ms, message) ==
  [id |-> msgId(ms, ""),
   role |-> "user",
   content |-> trim(message),
   timestamp |-> ms]

\* mutant of requestBody: the history also carries the message being sent
requestBodyWithNew(message) ==
  [message |-> trim(message),
   sessionId |-> rendered.sessionId,
   conversationHistory |->
     historyOf(Append(rendered.messages, userMessageOf(now, message)))]

\* the body of the fetch call (lines 48-61), built from the closure;
\* userInfo is read from the environment (window.location, the clock) and
\* is left out: nothing in the hook depends on it
requestBody(message) ==
  [message |-> trim(message),
   sessionId |-> rendered.sessionId,
   conversationHistory |-> historyOf(rendered.messages)]

\* sendMessage up to its first suspension point (lines 24-62)
sendMessage(message) ==
  IF earlyReturn(message)
  THEN /\ last' = Event("sendMessage", FALSE, "")
       /\ UNCHANGED <<session, isLoading, rendered, calls, requests, toasts, now>>
  ELSE LET userMessage == userMessageOf(now, message)
       IN /\ Len(calls) < MaxSends
          /\ session' = appendMessage(session, userMessage)
          /\ isLoading' = TRUE
          /\ requests' = requests + 1
          /\ calls' = Append(calls, [pc |-> "fetch",
                                     userMessage |-> userMessage,
                                     request |-> requestBody(message)])
          /\ last' = Event("sendMessage", TRUE, "")
          /\ UNCHANGED <<rendered, toasts, now>>

\* mutant of errorMessage: the fallback carries the success path's default text
errorMessageDefault(ms) ==
  [id |-> msgId(ms, "_error"),
   role |-> "assistant",
   content |-> DefaultText,
   timestamp |-> ms]

\* lines 85-90
errorMessage(ms) ==
  [id |-> msgId(ms, "_error"),
   role |-> "assistant",
   content |-> FallbackText,
   timestamp |-> ms]

\* lines 70-75
assistantMessage(ms, data) ==
  [id |-> msgId(ms, "_ai"),
   role |-> "assistant",
   content |-> replyContent(data),
   timestamp |-> ms]

\* mutant of finallyLoading: the flag is not cleared when the call ends
finallyStuck == isLoading

\* finally { setIsLoading(false) }   (lines 102-104)
finallyLoading == FALSE

\* an invocation that has returned: its locals are gone
Returned == [pc |-> "done", userMessage |-> <<>>, request |-> <<>>]

\* the try block ends in its catch (lines 82-101), then the finally block
failWith(i, how) ==
  /\ session' = appendMessage(session, errorMessage(now))
  /\ toasts' = toasts + 1
  /\ isLoading' = finallyLoading
  /\ calls' = [calls EXCEPT ![i] = Returned]
  /\ last' = Event("settle", FALSE, how)
  /\ UNCHANGED <<rendered, requests, now>>

\* fetch rejects: network or transport failure
fetchRejects(i) ==
  /\ calls[i].pc = "fetch"
  /\ failWith(i, "network")

\* fetch resolves with a response; !response.ok throws (lines 64-66),
\* otherwise the call awaits response.json() (line 68)
fetchResolves(i, ok) ==
  /\ calls[i].pc = "fetch"
  /\ IF ok
     THEN /\ calls' = [calls EXCEPT ![i].pc = "json"]
          /\ last' = Event("response", FALSE, "ok")
          /\ UNCHANGED <<session, isLoading, rendered, requests, toasts, now>>
     ELSE failWith(i, "status")

\* response.json() rejects: the body is not JSON
jsonRejects(i) ==
  /\ calls[i].pc = "json"
  /\ failWith(i, "parse")

\* response.json() resolves with data (lines 68-80, then finally); reading
\* a field of null throws a TypeError inside the try block
jsonResolves(i, data) ==
  /\ calls[i].pc = "json"
  /\ IF data.kind = "null"
     THEN failWith(i, "type")
     ELSE /\ session' = appendMessage(session, assistantMessage(now, data))
          /\ isLoading' = finallyLoading
          /\ calls' = [calls EXCEPT ![i] = Returned]
          /\ last' = Event("settle", TRUE, "json")
          /\ UNCHANGED <<rendered, requests, toasts, now>>

\* lines 107-112
clearChat(r) ==
  /\ session' = [sessionId |-> newSessionId(now, r), messages |-> <<>>]
  /\ last' = Event("clearChat", FALSE, "")
  /\ UNCHANGED <<isLoading, rendered, calls, requests, toasts, now>>

\* one step of an in-flight request
Settle ==
  \E i \in DOMAIN calls :
    \/ fetchRejects(i)
    \/ \E ok \in BOOLEAN : fetchResolves(i, ok)
    \/ jsonRejects(i)
    \/ \E data \in JsonBodies : jsonResolves(i, data)

Next ==
  \/ Render
  \/ Tick
  \/ \E m \in Inputs : sendMessage(m)
  \/ \E r \in RandSuffix : clearChat(r)
  \/ Settle

Spec == Init /\ [][Next]_vars

\* every issued request eventually settles
FairSpec == Spec /\ WF_vars(Settle)

\* ---------------------------------------------------- formatting a reply
\* The widget after one exchange: 'hi' was sent and rendered, and the reply
\* `text` has just been appended; the next render formats it.
FormatInit ==
  /\ now = 0
  /\ \E text \in FormatInputs :
       session = [sessionId |-> newSessionId(0, "k3x9"),
                  messages |->
                    << userMessageOf(0, <<"h", "i">>),
                       assistantMessage(0, [kind |-> "object",
                                            fields |-> [response |-> text]]) >>]
  /\ isLoading = FALSE
  /\ rendered = [sessionId |-> newSessionId(0, "k3x9"),
                 messages |-> << userMessageOf(0, <<"h", "i">>) >>,
                 isLoading |-> TRUE,
                 view |-> viewOf(<< userMessageOf(0, <<"h", "i">>) >>)]
  /\ calls = << Returned >>
  /\ requests = 1
  /\ toasts = 0
  /\ last = Event("settle", TRUE, "json")

FormatSpec == FormatInit /\ [][Render]_vars

\* ------------------------------------------------------------ properties
\* Stated independently of the operators above.

\* a text with nothing but whitespace in it
IsBlank(s) == \A k \in 1 .. Len(s) : s[k] \in Whitespace

\* the text between the first and the last non-whitespace character
Stripped(s) ==
  LET ink == { k \in 1 .. Len(s) : s[k] \notin Whitespace }
  IN IF ink = {} THEN <<>>
     ELSE SubSeq(s, CHOOSE k \in ink : \A j \in ink : k <= j,
                    CHOOSE k \in ink : \A j \in ink : k >= j)

InFlight == { i \in DOMAIN calls : calls[i].pc # "done" }

LastOf(seq) == seq[Len(seq)]

\* the step appended exactly one message, with this role and content
AppendedOne(role, content) ==
  /\ Len(session'.messages) = Len(session.messages) + 1
  /\ SubSeq(session'.messages, 1, Len(session.messages)) = session.messages
  /\ LastOf(session'.messages).role = role
  /\ LastOf(session'.messages).content = content

\* the step is an accepted sendMessage(m)
Accepts(m) == sendMessage(m) /\ last'.accepted

\* C1: a sendMessage call issued while busy (isLoading true: an accepted
\* call has not settled) appends no message and issues no request.
C1_BusySendIsNoOp ==
  [][(isLoading /\ last'.op = "sendMessage")
       => UNCHANGED <<session, requests>>]_vars

\* C2: sendMessage with an empty or whitespace-only text changes nothing:
\* no message, no request, no notification, busy and the session id as
\* they were.
C2_BlankSendIsNoOp ==
  [][\A m \in Inputs :
       (IsBlank(m) /\ sendMessage(m))
         => UNCHANGED <<session, isLoading, rendered, calls, requests, toasts>>]_vars

C2_Witness ==
  /\ last.op = "sendMessage"
  /\ ~last.accepted
  /\ ~rendered.isLoading
  /\ requests = 0

\* an accepted call appends its user message, sets busy, issues its request
C3_Accept ==
  \A m \in Inputs :
    Accepts(m) =>
      /\ ~IsBlank(m)
      /\ AppendedOne("user", Stripped(m))
      /\ isLoading'
      /\ requests' = requests + 1
      /\ Len(calls') = Len(calls) + 1
      /\ LastOf(calls').pc = "fetch"
      /\ LastOf(calls').userMessage = LastOf(session'.messages)
      /\ LastOf(calls').request.message = Stripped(m)

\* requests are issued by accepted calls only, one each
C3_OneRequestPerAccept ==
  (requests' # requests) =>
    /\ last'.op = "sendMessage"
    /\ last'.accepted
    /\ requests' = requests + 1

\* an in-flight call's user message leaves the log only by clearChat
C3_StaysUnlessCleared ==
  \A i \in InFlight :
    ( /\ last'.op # "clearChat"
      /\ \E k \in 1 .. Len(session.messages) :
           session.messages[k] = calls[i].userMessage )
    => \E k \in 1 .. Len(session'.messages) :
           session'.messages[k] = calls[i].userMessage

\* C3 as stated: an accepted call's user message is in the log in every
\* state between acceptance and settlement.
C3_UserMessageStaysInLog ==
  \A i \in InFlight :
    \E k \in 1 .. Len(session.messages) :
      session.messages[k] = calls[i].userMessage

\* C3 amended: an accepted call appends exactly one user message with the
\* trimmed input, sets busy, issues exactly one request (requests are issued
\* by accepted calls only, one each), and the user message stays in the log
\* while the request is in flight across every step but clearChat.
C3_AcceptedSend ==
  [][C3_Accept /\ C3_OneRequestPerAccept /\ C3_StaysUnlessCleared]_vars

C3_Witness ==
  /\ last.op = "sendMessage"
  /\ last.accepted
  /\ isLoading
  /\ requests = 1
  /\ Len(session.messages) = 1
  /\ session.messages[1].role = "user"
  /\ session.messages[1].content = <<"h", "i">>

\* C4 as stated: a success status with a JSON body carrying a response
\* field appends one assistant message whose content is that response
\* value, raises no notification and clears busy.
C4_ResponseFieldIsContent ==
  [][\A i \in DOMAIN calls : \A data \in JsonBodies :
       ( /\ data.kind = "object"
         /\ "response" \in DOMAIN data.fields
         /\ jsonResolves(i, data) )
       => /\ AppendedOne("assistant", data.fields["response"])
          /\ toasts' = toasts
          /\ ~isLoading']_vars

\* C4 amended: the same for a body whose response field is a non-empty
\* text.
C4_NonEmptyResponseIsContent ==
  [][\A i \in DOMAIN calls : \A data \in JsonBodies :
       ( /\ data.kind = "object"
         /\ "response" \in DOMAIN data.fields
         /\ data.fields["response"] # <<>>
         /\ jsonResolves(i, data) )
       => /\ AppendedOne("assistant", data.fields["response"])
          /\ toasts' = toasts
          /\ ~isLoading']_vars

C4_Witness ==
  /\ last.op = "settle"
  /\ last.how = "json"
  /\ Len(session.messages) = 2
  /\ session.messages[2].role = "assistant"
  /\ session.messages[2].content = <<"H", "e", "l", "l", "o">>
  /\ toasts = 0
  /\ ~isLoading

\* C5: a network failure, a non-success status and an unparseable body all
\* end the same way: one assistant message with the fallback text, one
\* notification, busy cleared, and the invocation returns.
C5_FailuresFallBack ==
  [][\A i \in DOMAIN calls :
       (fetchRejects(i) \/ fetchResolves(i, FALSE) \/ jsonRejects(i))
       => /\ AppendedOne("assistant", FallbackText)
          /\ toasts' = toasts + 1
          /\ ~isLoading'
          /\ calls'[i].pc = "done"]_vars

C5_Witness ==
  /\ last.op = "settle"
  /\ last.how = "parse"
  /\ toasts = 2
  /\ Len(session.messages) = 4
  /\ session.messages[2].content = FallbackText
  /\ session.messages[4].content = FallbackText
  /\ ~isLoading

\* C6: clearChat, in any state, leaves a session with no messages and an
\* identifier different from the one before it, and issues no request.
C6_ClearGivesNewSession ==
  [][\A r \in RandSuffix :
       clearChat(r)
       => /\ session'.messages = <<>>
          /\ session'.sessionId # session.sessionId
          /\ requests' = requests]_vars

\* the step ends an invocation: the request has settled and been handled
Settles(i) == calls[i].pc # "done" /\ calls'[i].pc = "done"

\* C7: every invocation that ends leaves busy false, and, every issued
\* request settling eventually, busy true always leads to busy false.
C7_BusyIsCleared ==
  /\ [][\A i \in DOMAIN calls : Settles(i) => ~isLoading']_vars
  /\ (isLoading ~> ~isLoading)

C7_Witness ==
  /\ last.op = "settle"
  /\ ~isLoading
  /\ InFlight = {}
  /\ requests = MaxSends

\* C8: the conversationHistory of an accepted call's request is, in order,
\* the role/content/timestamp of exactly the messages in the session before
\* the call's user message was appended.
C8_HistoryIsPriorMessages ==
  [][\A m \in Inputs :
       Accepts(m)
       => LastOf(calls').request.conversationHistory
            = historyOf(session.messages)]_vars

\* C9 as stated: the conversationHistory sent reflects all messages up to
\* and including the user message the call has just added.
C9_HistoryIncludesNewMessage ==
  [][\A m \in Inputs :
       Accepts(m)
       => LastOf(calls').request.conversationHistory
            = historyOf(session'.messages)]_vars

\* the latest render shows the current session
RenderCurrent ==
  /\ rendered.sessionId = session.sessionId
  /\ rendered.messages = session.messages

\* C9 amended: the conversationHistory sent is the message list of the
\* render the callback comes from; when that render is current, it is the
\* session's messages without the user message the call has just added.
C9_HistoryIsRenderedMessages ==
  [][\A m \in Inputs :
       Accepts(m)
       => LET sent == LastOf(calls').request.conversationHistory
          IN /\ Len(sent) = Len(rendered.messages)
             /\ \A k \in 1 .. Len(sent) :
                  /\ sent[k].role = rendered.messages[k].role
                  /\ sent[k].content = rendered.messages[k].content
                  /\ sent[k].timestamp = <<"ISO-8601", rendered.messages[k].timestamp>>
             /\ RenderCurrent =>
                  /\ Len(sent) = Len(session'.messages) - 1
                  /\ \A k \in 1 .. Len(sent) :
                       /\ sent[k].role = session'.messages[k].role
                       /\ sent[k].content = session'.messages[k].content]_vars

C9_Witness ==
  /\ last.op = "sendMessage"
  /\ last.accepted
  /\ Len(session.messages) = 3
  /\ rendered.messages = SubSeq(session.messages, 1, 2)
  /\ Len(LastOf(calls).request.conversationHistory) = 2
  /\ LastOf(calls).request.conversationHistory[2].role = "assistant"

\* C10: a reply or fallback that arrives after clearChat is not discarded:
\* whenever an invocation ends, exactly one assistant message is appended to
\* the session that exists then, whatever session the call was made in.
C10_ReplyLandsInCurrentSession ==
  [][\A i \in DOMAIN calls :
       Settles(i)
       => /\ Len(session'.messages) = Len(session.messages) + 1
          /\ SubSeq(session'.messages, 1, Len(session.messages)) = session.messages
          /\ LastOf(session'.messages).role = "assistant"
          /\ session'.sessionId = session.sessionId]_vars

\* a session that begins with an assistant message: the reply to a message
\* sent in the session before it
C10_Witness ==
  /\ last.op = "settle"
  /\ session.sessionId # newSessionId(0, "k3x9")
  /\ Len(session.messages) = 1
  /\ session.messages[1].role = "assistant"
  /\ requests = 1

\* some clearChat call is the step
Clears == \E r \in RandSuffix : clearChat(r)

\* xs is an initial part of ys, element for element
IsPrefix(xs, ys) ==
  /\ Len(xs) <= Len(ys)
  /\ \A k \in 1 .. Len(xs) : ys[k] = xs[k]

\* C11: messages are append-only within a session: across every step that
\* is not clearChat (accepting a send, appending a reply or a fallback,
\* clearing busy, rendering) the message list before the step is a prefix of
\* the list after it, and the list grows by at most one message.
C11_MessagesAppendOnly ==
  [][~Clears
       => /\ IsPrefix(session.messages, session'.messages)
          /\ Len(session'.messages) <= Len(session.messages) + 1]_vars

\* a fallback has been appended behind three earlier messages
C11_Witness ==
  /\ last.op = "settle"
  /\ last.how = "status"
  /\ Len(session.messages) = 4
  /\ session.messages[1].role = "user"
  /\ session.messages[2].role = "assistant"
  /\ session.messages[3].role = "user"
  /\ session.messages[4].role = "assistant"

\* C12: the session identifier changes in no step but clearChat: sendMessage
\* and the handling of a settled request (reply or fallback) leave it as it
\* was.
C12_SessionIdImmutable ==
  [][(session'.sessionId # session.sessionId) => Clears]_vars

\* a send and its reply in a session created by clearChat, the identifier
\* still the one clearChat gave it
C12_Witness ==
  /\ last.op = "settle"
  /\ last.how = "json"
  /\ session.sessionId = newSessionId(1, "p07q")
  /\ Len(session.messages) = 2
  /\ session.messages[1].role = "user"

\* C13: message identifiers are unique within a session in every reachable
\* state: no two messages of the list share an id.
C13_MessageIdsUnique ==
  \A j, k \in 1 .. Len(session.messages) :
    (j # k) => session.messages[j].id # session.messages[k].id

\* the body carries field f
Has(data, f) == data.kind = "object" /\ f \in DOMAIN data.fields

\* the body carries field f with a non-empty text
HasText(data, f) == Has(data, f) /\ Len(data.fields[f]) > 0

InLog(m) == \E k \in 1 .. Len(session.messages) : session.messages[k] = m

\* C15: when an accepted call ends with its user message still in the log
\* (no clearChat since it was accepted), the log since acceptance has grown
\* by exactly two messages in this order: the call's user message, which is
\* therefore the last message when the request settles, then one assistant
\* message.
C15_AwaitedSendAddsTwo ==
  [][\A i \in DOMAIN calls :
       (Settles(i) /\ InLog(calls[i].userMessage))
       => /\ LastOf(session.messages) = calls[i].userMessage
          /\ Len(session'.messages) = Len(session.messages) + 1
          /\ LastOf(session'.messages).role = "assistant"]_vars

\* C18: in every reachable state at most one outbound request is in flight.
C18_AtMostOneInFlight == Cardinality(InFlight) <= 1

\* C19: while an issued request remains unsettled, busy is true.
C19_BusyWhileUnsettled == (InFlight # {}) => isLoading

\* C20: the sessionId in the request of an accepted call is the sessionId of
\* the session state that receives the call's user message.
C20_RequestCarriesSessionId ==
  [][\A m \in Inputs :
       Accepts(m)
       => LastOf(calls').request.sessionId = session'.sessionId]_vars

\* a part that is the plain text `text`
IsText(part, text) == part.kind = "text" /\ part.text = text

\* a part that is a hyperlink to `href` labelled `label`
IsLink(part, href, label) ==
  part.kind = "a" /\ part.href = href /\ part.children = label

UrlA == <<"h", "t", "t", "p", "s", ":", "/", "/", "a", ".", "c", "o", "m">>
UrlB == <<"h", "t", "t", "p", "s", ":", "/", "/", "b", ".", "c", "o", "m">>

\* the rendered messages whose content is `text`
Shown(text) ==
  { k \in DOMAIN rendered.view : rendered.messages[k].content = text }

\* C16 as stated: the input "See https://a.com\n[here](https://b.com)" is
\* formatted as two lines, line 1 a single hyperlink to https://a.com
\* labelled https://a.com, line 2 a single hyperlink to https://b.com
\* labelled here.
C16_EachLineIsOneLink ==
  \A k \in Shown(RoundTripInput) :
    LET f == rendered.view[k]
    IN /\ Len(f) = 2
       /\ Len(f[1].parts) = 1
       /\ IsLink(f[1].parts[1], UrlA, UrlA)
       /\ Len(f[2].parts) = 1
       /\ IsLink(f[2].parts[1], UrlB, <<"h", "e", "r", "e">>)

\* C16 amended: the input is formatted as two lines with one break between
\* them; line 1 is the plain text "See " followed by a single hyperlink to
\* https://a.com labelled https://a.com; line 2 is a single hyperlink to
\* https://b.com labelled here.
C16_RoundTripFormat ==
  \A k \in Shown(RoundTripInput) :
    LET f == rendered.view[k]
    IN /\ Len(f) = 2
       /\ f[1].br
       /\ ~f[2].br
       /\ Len(f[1].parts) = 2
       /\ IsText(f[1].parts[1], <<"S", "e", "e", " ">>)
       /\ IsLink(f[1].parts[2], UrlA, UrlA)
       /\ Len(f[2].parts) = 1
       /\ IsLink(f[2].parts[1], UrlB, <<"h", "e", "r", "e">>)

C16_Witness ==
  /\ last.op = "render"
  /\ Shown(RoundTripInput) = {2}

\* the texts a part can have been made from: a plain text from itself, a
\* hyperlink from its target (when that is its label) or from
\* [label](target)
PartSources(part) ==
  IF part.kind = "text" THEN { part.text }
  ELSE { <<"[">> \o part.children \o <<"]", "(">> \o part.href \o <<")">> }
         \cup (IF part.children = part.href THEN { part.href } ELSE {})

\* the texts a sequence of parts can have been made from
RECURSIVE PartsSources(_)
PartsSources(parts) ==
  IF parts = <<>> THEN { <<>> }
  ELSE { h \o t : h \in PartSources(Head(parts)), t \in PartsSources(Tail(parts)) }

\* the texts a formatted message can have been made from, a line break for
\* every <br />
RECURSIVE ViewSources(_)
ViewSources(f) ==
  IF f = <<>> THEN { <<>> }
  ELSE { h \o (IF Head(f).br THEN <<"\n">> ELSE <<>>) \o t :
           h \in PartsSources(Head(f).parts), t \in ViewSources(Tail(f)) }

LineBreaks(text) == { k \in 1 .. Len(text) : text[k] = "\n" }

\* the text has nothing a link could begin with
NoLinkMarks(text) ==
  \A k \in 1 .. Len(text) : text[k] \notin {"[", ":"}

\* C17: the formatter preserves text exactly: every line is its parts'
\* sources in order, character for character; a text with n line breaks
\* gives n + 1 lines in order with a break after each but the last; a text
\* without links and without line breaks gives a single plain-text part
\* equal to it.
C17_FormatPreservesText ==
  \A k \in DOMAIN rendered.view :
    LET f == rendered.view[k]
        text == rendered.messages[k].content
    IN /\ Len(f) = Cardinality(LineBreaks(text)) + 1
       /\ \A j \in 1 .. Len(f) :
            /\ f[j].br = (j < Len(f))
            /\ \A src \in PartsSources(f[j].parts) : LineBreaks(src) = {}
       /\ text \in ViewSources(f)
       /\ \A j \in 1 .. Len(f) : \A q \in 1 .. Len(f[j].parts) :
            f[j].parts[q].kind = "a" => ~NoLinkMarks(text)
       /\ ( /\ LineBreaks(text) = {}
            /\ \A q \in 1 .. Len(f[1].parts) : f[1].parts[q].kind = "text" )
          => f = << [parts |-> << [kind |-> "text", text |-> text] >>,
                     br |-> FALSE] >>

\* a line that is a plain text followed by a markdown link
C17_Witness ==
  /\ last.op = "render"
  /\ Shown(<<"S", "e", "e", " ", "[", "a", "]", "(", "b", ")">>) = {2}
  /\ Len(rendered.view[2]) = 1
  /\ Len(rendered.view[2][1].parts) = 2
====
